---- MODULE Spec2Model ----
(***************************************************************************)
(* A model of ynabinterfaceslib (src/ynabinterfaceslib/ynabinterfaceslib.py) *)
(*                                                                         *)
(*   Comparable            attribute-subset hashing and equality           *)
(*   Transaction._clean_up the text sanitizer                              *)
(*   AccountAuthenticator  browser life cycle, _click_on and the cookie    *)
(*                         transfer of get_authenticated_session           *)
(*                                                                         *)
(* The three parts do not interact; each has its own next-state relation   *)
(* and specification (SpecComparable, SpecCleanUp, SpecAuth) over the one  *)
(* variable list.                                                          *)
(***************************************************************************)
EXTENDS Integers, Sequences, FiniteSets, TLC

VARIABLES
    hashSeed,   \* the interpreter's string-hash key (fixed for a process)
    objs,       \* the live Comparable instances
    last,       \* outcome of the last == or != evaluated
    string,     \* the text handed to Transaction._clean_up
    result,     \* what _clean_up returned for it
    browserOpen,    \* the headless browser process of self._driver is alive
    driverCookies,  \* the browser's cookie jar
    authCalled,     \* authenticate has been called on this instance
    authenticated,  \* authenticate has completed
    pc,             \* position of the running method
    xpath,          \* _click_on: the locator
    waited,         \* _click_on: the locator the wait succeeded on
    waits,          \* _click_on: waits made by the current call
    clicks,         \* the elements clicked so far
    cookies,        \* get_authenticated_session: self._driver.get_cookies()
    idx,            \* get_authenticated_session: position of the loop
    session,        \* get_authenticated_session: the session.cookies.set calls
    quits,          \* get_authenticated_session: driver quits by the current call
    outcome         \* how the last call ended

cmpVars == <<hashSeed, objs, last>>
cleanVars == <<string, result>>
authVars == <<browserOpen, driverCookies, authCalled, authenticated, pc, xpath,
              waited, waits, clicks, cookies, idx, session, quits, outcome>>
vars == <<cmpVars, cleanVars, authVars>>

(***************************************************************************)
(* Bounds of the model.                                                    *)
(***************************************************************************)
MaxObjs == 3
MaxSeed == 1
HashBits == 2
MaxLen == 4
MaxCookies == 2
MaxClicks == 2

(***************************************************************************)
(* Python values and their repr().                                         *)
(***************************************************************************)
IntV(n) == [t |-> "int", v |-> n]
StrV(n) == [t |-> "str", v |-> n]

Digit(n) == CASE n = 0 -> "0" [] n = 1 -> "1" [] n = 2 -> "2" [] n = 3 -> "3"
              [] n = 4 -> "4" [] n = 5 -> "5" [] n = 6 -> "6" [] n = 7 -> "7"
              [] n = 8 -> "8" [] n = 9 -> "9"

\* repr(value): an int prints its digits, a str prints quoted.  Values are
\* single digits (the int 1, the str '1').
Repr(val) == IF val.t = "int" THEN <<Digit(val.v)>>
             ELSE <<"'", Digit(val.v), "'">>

\* ord() of the characters that occur in str(OrderedDict(...)).
Ord(c) == CASE c = "O" -> 79 [] c = "r" -> 114 [] c = "d" -> 100 [] c = "e" -> 101
            [] c = "D" -> 68 [] c = "i" -> 105 [] c = "c" -> 99 [] c = "t" -> 116
            [] c = "(" -> 40 [] c = ")" -> 41 [] c = "[" -> 91 [] c = "]" -> 93
            [] c = "'" -> 39 [] c = "," -> 44 [] c = " " -> 32
            [] c = "x" -> 120 [] c = "y" -> 121
            [] c = "0" -> 48 [] c = "1" -> 49 [] c = "2" -> 50 [] c = "3" -> 51
            [] c = "4" -> 52 [] c = "5" -> 53 [] c = "6" -> 54 [] c = "7" -> 55
            [] c = "8" -> 56 [] c = "9" -> 57

(***************************************************************************)
(* Comparable and two concrete subclasses.  An instance holds the payload  *)
(* _data; the subclasses expose its fields x and y as attributes and       *)
(* declare which of them take part in the comparison.                      *)
(***************************************************************************)
Classes == {"TxnXY", "TxnX"}

\* _comparable_attributes of each subclass, in declared order.
ComparableAttributes(cls) == IF cls = "TxnXY" THEN <<"x", "y">> ELSE <<"x">>

XValues == {IntV(1), IntV(2), StrV(1)}
YValues == {IntV(1), IntV(2)}

\* Comparable.__init__(data)
NewComparable(cls, data) == [cls |-> cls, _data |-> data]

Payloads == [x : XValues, y : YValues]

Instances == {NewComparable(cls, d) : cls \in Classes, d \in Payloads}

\* Operands of == and != that are not Comparable instances.
NonComparables == {[cls |-> "NoneType"], [cls |-> "str"]}

\* isinstance(other, Comparable)
IsComparable(o) == o.cls \in Classes

\* getattr(self, key): the subclasses' attributes read the payload.
GetAttr(o, key) == o._data[key]

\* The ordered mapping key -> getattr(self, key) over the given keys.
MappingOver(o, keys) == [i \in 1..Len(keys) |-> <<keys[i], GetAttr(o, keys[i])>>]

\* A _comparable_data that takes every field of the payload.
WholePayload(o) == MappingOver(o, <<"x", "y">>)

\* Comparable._comparable_data
ComparableData(o) == MappingOver(o, ComparableAttributes(o.cls))

RECURSIVE ItemsStr(_)
\* "('x', 1), ('y', 2)"
ItemsStr(items) ==
    IF items = <<>> THEN <<>>
    ELSE <<"(", "'", items[1][1], "'", ",", " ">> \o Repr(items[1][2]) \o <<")">>
         \o (IF Len(items) > 1 THEN <<",", " ">> ELSE <<>>)
         \o ItemsStr(Tail(items))

\* str(OrderedDict): "OrderedDict([('x', 1), ('y', 2)])"
StrOf(od) ==
    <<"O", "r", "d", "e", "r", "e", "d", "D", "i", "c", "t", "(", "[">>
    \o ItemsStr(od) \o <<"]", ")">>

RECURSIVE HashFrom(_, _)
HashFrom(h, s) ==
    IF s = <<>> THEN h
    ELSE HashFrom((h * 33 + Ord(Head(s))) % (2 ^ HashBits), Tail(s))

\* hash(str): a keyed hash of the characters into a fixed-width integer.
\* CPython's is 64 bits wide and keyed per process; the model keeps the
\* shape (a function of key and text into 2^HashBits values).
HashStr(seed, s) == HashFrom(seed % (2 ^ HashBits), s)

Seeds == 0..MaxSeed

\* A __hash__ that serialises the whole payload, not the declared subset.
HashOfWholePayload(seed, o) == HashStr(seed, StrOf(WholePayload(o)))

\* Comparable.__hash__: hash(str(self._comparable_data))
HashOf(seed, o) == HashStr(seed, StrOf(ComparableData(o)))

\* __hash__ of every instance under every key, evaluated once.
HashTable == [seed \in Seeds |-> [o \in Instances |-> HashOf(seed, o)]]

Hash(seed, o) == HashTable[seed][o]

Return(v) == [exc |-> "none", val |-> v]
Raise(e) == [exc |-> e, val |-> FALSE]

\* Comparable.__eq__
Eq(seed, a, other) ==
    IF ~IsComparable(other) THEN Raise("ValueError")
    ELSE Return(Hash(seed, a) = Hash(seed, other))

\* A __ne__ that lacks the isinstance check.
NeUnchecked(seed, a, other) ==
    Return(IF IsComparable(other) THEN Hash(seed, a) # Hash(seed, other) ELSE TRUE)

\* A __ne__ that compares the serialised data instead of the hashes.
NeByData(seed, a, other) ==
    IF ~IsComparable(other) THEN Raise("ValueError")
    ELSE Return(StrOf(ComparableData(a)) # StrOf(ComparableData(other)))

\* Comparable.__ne__
Ne(seed, a, other) ==
    IF ~IsComparable(other) THEN Raise("ValueError")
    ELSE Return(Hash(seed, a) # Hash(seed, other))

NoResult == [op |-> "none"]

InitComparable ==
    /\ hashSeed \in Seeds
    /\ objs = {}
    /\ last = NoResult

\* A subclass instance is constructed.
Construct(o) ==
    /\ Cardinality(objs) < MaxObjs
    /\ o \notin objs
    /\ objs' = objs \cup {o}
    /\ last' = NoResult
    /\ UNCHANGED <<hashSeed, cleanVars, authVars>>

\* An instance is dropped.
Discard(o) ==
    /\ o \in objs
    /\ objs' = objs \ {o}
    /\ last' = NoResult
    /\ UNCHANGED <<hashSeed, cleanVars, authVars>>

\* a == other
DoEq(a, other) ==
    /\ a \in objs
    /\ last' = [op |-> "eq", a |-> a, b |-> other, res |-> Eq(hashSeed, a, other)]
    /\ UNCHANGED <<hashSeed, objs, cleanVars, authVars>>

\* a != other
DoNe(a, other) ==
    /\ a \in objs
    /\ last' = [op |-> "ne", a |-> a, b |-> other, res |-> Ne(hashSeed, a, other)]
    /\ UNCHANGED <<hashSeed, objs, cleanVars, authVars>>

NextComparable ==
    \/ \E o \in Instances : Construct(o)
    \/ \E o \in objs : Discard(o)
    \/ \E a \in objs, other \in objs \cup NonComparables : DoEq(a, other)
    \/ \E a \in objs, other \in objs \cup NonComparables : DoNe(a, other)

(***************************************************************************)
(* Transaction._clean_up                                                   *)
(***************************************************************************)
NUL == "NUL"

\* str.isspace() of a character: what str.split() splits on.
IsSpace(c) == c \in {" ", "\t", "\n"}

\* Characters of the enumerated inputs.
Chars == {"A", " ", "\t", NUL}

\* "  A\x00B   C "
ExampleInput == <<" ", " ", "A", NUL, "B", " ", " ", " ", "C", " ">>

RECURSIVE SplitFrom(_, _, _)
\* str.split() scanning s with the current word cur and the words so far.
SplitFrom(s, cur, words) ==
    IF s = <<>> THEN (IF cur = <<>> THEN words ELSE Append(words, cur))
    ELSE IF IsSpace(Head(s))
         THEN SplitFrom(Tail(s), <<>>, IF cur = <<>> THEN words ELSE Append(words, cur))
         ELSE SplitFrom(Tail(s), Append(cur, Head(s)), words)

\* string.split(): the maximal runs of non-whitespace characters.
Split(s) == SplitFrom(s, <<>>, <<>>)

RECURSIVE Join(_, _)
\* sep.join(words)
Join(sep, words) ==
    IF words = <<>> THEN <<>>
    ELSE IF Len(words) = 1 THEN words[1]
    ELSE words[1] \o sep \o Join(sep, Tail(words))

\* s.replace(old, ''), old a single character
Remove(s, old) == SelectSeq(s, LAMBDA c : c # old)

\* Transaction._clean_up: " ".join(string.split()).replace('\x00', '')
CleanUp(s) == Remove(Join(<<" ">>, Split(s)), NUL)

NotCalled == [done |-> FALSE]

InitCleanUp ==
    /\ string = <<>>
    /\ result = NotCalled

\* The text grows by one character.
Type(c) ==
    /\ Len(string) < MaxLen
    /\ string' = Append(string, c)
    /\ result' = NotCalled
    /\ UNCHANGED <<cmpVars, authVars>>

\* The text is the example "  A\x00B   C ".
TakeExample ==
    /\ string' = ExampleInput
    /\ result' = NotCalled
    /\ UNCHANGED <<cmpVars, authVars>>

\* The text is started afresh.
Clear ==
    /\ string' = <<>>
    /\ result' = NotCalled
    /\ UNCHANGED <<cmpVars, authVars>>

\* Transaction._clean_up(string) is called.
DoCleanUp ==
    /\ result' = [done |-> TRUE, val |-> CleanUp(string)]
    /\ UNCHANGED <<string, cmpVars, authVars>>

NextCleanUp ==
    \/ \E c \in Chars : Type(c)
    \/ TakeExample
    \/ Clear
    \/ DoCleanUp


(***************************************************************************)
(* AccountAuthenticator                                                    *)
(***************************************************************************)
\* Cookies as the browser driver reports them: a mapping from attribute
\* names to values; httpOnly and expiry may be absent.
BrowserCookies ==
    { [name |-> "a", value |-> "1", httpOnly |-> "true", expiry |-> "123", domain |-> "x"],
      [name |-> "b", value |-> "2"],
      [name |-> "c", value |-> "3", httpOnly |-> "false"],
      [name |-> "d", value |-> "4", expiry |-> "9", domain |-> "x"] }

\* Locators a subclass's authenticate clicks on.
Locators == {"//login", "//submit"}

\* del cookie[key]: KeyError when the key is absent.
Del(cookie, key) ==
    IF key \in DOMAIN cookie
    THEN [exc |-> "none", val |-> [k \in (DOMAIN cookie) \ {key} |-> cookie[k]]]
    ELSE [exc |-> "KeyError", val |-> cookie]

\* del cookie[key] with no handler around it.
DelOrRaise(r, key) ==
    IF r.exc # "none" THEN r ELSE Del(r.val, key)

\* try: del cookie[invalid]  except KeyError: pass
TryDel(r, key) ==
    IF r.exc # "none" THEN r
    ELSE IF Del(r.val, key).exc = "KeyError" THEN r ELSE Del(r.val, key)

\* The inner loop without the KeyError handler.
StripInvalidUnhandled(cookie) ==
    DelOrRaise(DelOrRaise([exc |-> "none", val |-> cookie], "httpOnly"), "expiry")

\* for invalid in ['httpOnly', 'expiry']: try: del cookie[invalid] ...
StripInvalid(cookie) ==
    TryDel(TryDel([exc |-> "none", val |-> cookie], "httpOnly"), "expiry")

Pending == [op |-> "none", exc |-> "none", ret |-> <<>>]
Ended(op, exc) == [op |-> op, exc |-> exc, ret |-> <<>>]

\* The state __init__ leaves: _initialize_chrome has launched the browser.
InitAuth ==
    /\ browserOpen = TRUE
    /\ driverCookies = <<>>
    /\ authCalled = FALSE
    /\ authenticated = FALSE
    /\ pc = "idle"
    /\ xpath = "none"
    /\ waited = "none"
    /\ waits = 0
    /\ clicks = <<>>
    /\ cookies = <<>>
    /\ idx = 0
    /\ session = <<>>
    /\ quits = 0
    /\ outcome = Pending

\* AccountAuthenticator.__init__: another authenticator is constructed.
NewAuthenticator ==
    /\ pc = "idle"
    /\ browserOpen' = TRUE
    /\ driverCookies' = <<>>
    /\ authCalled' = FALSE
    /\ authenticated' = FALSE
    /\ pc' = "idle"
    /\ xpath' = "none"
    /\ waited' = "none"
    /\ waits' = 0
    /\ clicks' = <<>>
    /\ cookies' = <<>>
    /\ idx' = 0
    /\ session' = <<>>
    /\ quits' = 0
    /\ outcome' = Pending
    /\ UNCHANGED <<cmpVars, cleanVars>>

\* authenticate(...) of a subclass is entered.
AuthBegin ==
    /\ pc = "idle"
    /\ pc' = "auth"
    /\ authCalled' = TRUE
    /\ authenticated' = FALSE
    /\ outcome' = Pending
    /\ UNCHANGED <<cmpVars, cleanVars, browserOpen, driverCookies, xpath, waited, waits, clicks,
                   cookies, idx, session, quits>>

\* The site answers the login flow with a cookie.
PageSetsCookie(c) ==
    /\ pc = "auth"
    /\ browserOpen
    /\ Len(driverCookies) < MaxCookies
    /\ driverCookies' = Append(driverCookies, c)
    /\ UNCHANGED <<cmpVars, cleanVars, browserOpen, authCalled, authenticated, pc, xpath, waited,
                   waits, clicks, cookies, idx, session, quits, outcome>>

\* authenticate calls self._click_on(x).
ClickOnCall(x) ==
    /\ pc = "auth"
    /\ Len(clicks) < MaxClicks
    /\ pc' = "wait"
    /\ xpath' = x
    /\ waited' = "none"
    /\ waits' = 0
    /\ UNCHANGED <<cmpVars, cleanVars, browserOpen, driverCookies, authCalled, authenticated, clicks,
                   cookies, idx, session, quits, outcome>>

\* WebDriverWait(...).until(element_to_be_clickable(...)) returns.
WaitOk ==
    /\ pc = "wait"
    /\ browserOpen
    /\ waits' = waits + 1
    /\ waited' = xpath
    /\ pc' = "click"
    /\ UNCHANGED <<cmpVars, cleanVars, browserOpen, driverCookies, authCalled, authenticated, xpath,
                   clicks, cookies, idx, session, quits, outcome>>

\* A wait whose timeout is swallowed: the click goes ahead.
WaitTimeoutSwallowed ==
    /\ pc = "wait"
    /\ waits' = waits + 1
    /\ pc' = "click"
    /\ UNCHANGED <<cmpVars, cleanVars, browserOpen, driverCookies, authCalled, authenticated, xpath,
                   waited, clicks, cookies, idx, session, quits, outcome>>

\* The wait times out (or the driver fails): the error leaves _click_on and
\* authenticate uncaught.
WaitTimeout ==
    /\ pc = "wait"
    /\ waits' = waits + 1
    /\ pc' = "idle"
    /\ outcome' = Ended("authenticate",
                        IF browserOpen THEN "TimeoutException" ELSE "WebDriverException")
    /\ UNCHANGED <<cmpVars, cleanVars, browserOpen, driverCookies, authCalled, authenticated, xpath,
                   waited, clicks, cookies, idx, session, quits>>

\* self._driver.find_element_by_xpath(xpath).click(); _click_on returns.
Click ==
    /\ pc = "click"
    /\ clicks' = Append(clicks, xpath)
    /\ pc' = "auth"
    /\ UNCHANGED <<cmpVars, cleanVars, browserOpen, driverCookies, authCalled, authenticated, xpath,
                   waited, waits, cookies, idx, session, quits, outcome>>

\* find_element_by_xpath(xpath).click() raises (the element has gone): the
\* error leaves _click_on and authenticate uncaught.
ClickRaises ==
    /\ pc = "click"
    /\ pc' = "idle"
    /\ outcome' = Ended("authenticate", "WebDriverException")
    /\ UNCHANGED <<cmpVars, cleanVars, browserOpen, driverCookies, authCalled,
                   authenticated, xpath, waited, waits, clicks, cookies, idx,
                   session, quits>>

\* authenticate returns.
AuthEnd ==
    /\ pc = "auth"
    /\ pc' = "idle"
    /\ authenticated' = TRUE
    /\ outcome' = Ended("authenticate", "none")
    /\ UNCHANGED <<cmpVars, cleanVars, browserOpen, driverCookies, authCalled, xpath, waited, waits,
                   clicks, cookies, idx, session, quits>>

\* A get_authenticated_session that refuses to run before authenticate.
GasStartChecked ==
    /\ pc = "idle"
    /\ session' = <<>>
    /\ quits' = 0
    /\ IF browserOpen /\ authenticated
       THEN /\ cookies' = driverCookies
            /\ idx' = 1
            /\ pc' = "gas_loop"
            /\ outcome' = Pending
       ELSE /\ cookies' = <<>>
            /\ idx' = 0
            /\ pc' = "idle"
            /\ outcome' = Ended("gas", IF browserOpen THEN "NotAuthenticated"
                                       ELSE "WebDriverException")
    /\ UNCHANGED <<cmpVars, cleanVars, browserOpen, driverCookies, authCalled, authenticated, xpath,
                   waited, waits, clicks>>

\* get_authenticated_session: session = Session(); self._driver.get_cookies().
\* A driver whose browser has quit fails the command.
GasStart ==
    /\ pc = "idle"
    /\ session' = <<>>
    /\ quits' = 0
    /\ IF browserOpen
       THEN /\ cookies' = driverCookies
            /\ idx' = 1
            /\ pc' = "gas_loop"
            /\ outcome' = Pending
       ELSE /\ cookies' = <<>>
            /\ idx' = 0
            /\ pc' = "idle"
            /\ outcome' = Ended("gas", "WebDriverException")
    /\ UNCHANGED <<cmpVars, cleanVars, browserOpen, driverCookies, authCalled, authenticated, xpath,
                   waited, waits, clicks>>

\* One round of the loop: the two keys are deleted and the rest is handed to
\* session.cookies.set(**cookie), which accepts it.
GasTransfer ==
    /\ pc = "gas_loop"
    /\ idx <= Len(cookies)
    /\ LET r == StripInvalid(cookies[idx]) IN
       IF r.exc = "none"
       THEN /\ session' = Append(session, r.val)
            /\ idx' = idx + 1
            /\ UNCHANGED <<cmpVars, cleanVars, pc, outcome>>
       ELSE /\ pc' = "idle"
            /\ outcome' = Ended("gas", r.exc)
            /\ UNCHANGED <<cmpVars, cleanVars, session, idx>>
    /\ UNCHANGED <<cmpVars, cleanVars, browserOpen, driverCookies, authCalled, authenticated, xpath,
                   waited, waits, clicks, cookies, quits>>

\* A transfer wrapped in try/finally: the browser quits when the set raises.
GasSetRaisesThenQuits ==
    /\ pc = "gas_loop"
    /\ idx <= Len(cookies)
    /\ StripInvalid(cookies[idx]).exc = "none"
    /\ pc' = "idle"
    /\ browserOpen' = FALSE
    /\ quits' = quits + 1
    /\ outcome' = Ended("gas", "SetError")
    /\ UNCHANGED <<cmpVars, cleanVars, driverCookies, authCalled, authenticated, xpath, waited, waits,
                   clicks, cookies, idx, session>>

\* One round of the loop in which session.cookies.set(**cookie) raises: the
\* error leaves get_authenticated_session.
GasSetRaises ==
    /\ pc = "gas_loop"
    /\ idx <= Len(cookies)
    /\ StripInvalid(cookies[idx]).exc = "none"
    /\ pc' = "idle"
    /\ outcome' = Ended("gas", "SetError")
    /\ UNCHANGED <<cmpVars, cleanVars, browserOpen, driverCookies, authCalled, authenticated, xpath,
                   waited, waits, clicks, cookies, idx, session, quits>>

\* A get_authenticated_session that returns without self.quit().
GasNoQuit ==
    /\ pc = "gas_loop"
    /\ idx > Len(cookies)
    /\ pc' = "gas_return"
    /\ UNCHANGED <<cmpVars, cleanVars, browserOpen, driverCookies, authCalled, authenticated, xpath,
                   waited, waits, clicks, cookies, idx, session, quits, outcome>>

\* The loop is over: self.quit().
GasQuit ==
    /\ pc = "gas_loop"
    /\ idx > Len(cookies)
    /\ browserOpen' = FALSE
    /\ quits' = quits + 1
    /\ pc' = "gas_return"
    /\ UNCHANGED <<cmpVars, cleanVars, driverCookies, authCalled, authenticated, xpath, waited, waits,
                   clicks, cookies, idx, session, outcome>>

\* return session
GasReturn ==
    /\ pc = "gas_return"
    /\ pc' = "idle"
    /\ outcome' = [op |-> "gas", exc |-> "none", ret |-> session]
    /\ UNCHANGED <<cmpVars, cleanVars, browserOpen, driverCookies, authCalled, authenticated, xpath,
                   waited, waits, clicks, cookies, idx, session, quits>>

\* quit(), called by the user of the authenticator.
Quit ==
    /\ pc = "idle"
    /\ browserOpen' = FALSE
    /\ outcome' = Ended("quit", "none")
    /\ UNCHANGED <<cmpVars, cleanVars, driverCookies, authCalled, authenticated, pc, xpath, waited,
                   waits, clicks, cookies, idx, session, quits>>

\* quit() on a browser that has already quit: whether the second
\* self._driver.quit() raises is the driver's choice; here it does.
QuitRaises ==
    /\ pc = "idle"
    /\ ~browserOpen
    /\ outcome' = Ended("quit", "WebDriverException")
    /\ UNCHANGED <<cmpVars, cleanVars, browserOpen, driverCookies, authCalled,
                   authenticated, pc, xpath, waited, waits, clicks, cookies, idx,
                   session, quits>>

NextAuth ==
    \/ NewAuthenticator
    \/ AuthBegin
    \/ \E c \in BrowserCookies : PageSetsCookie(c)
    \/ \E x \in Locators : ClickOnCall(x)
    \/ WaitOk
    \/ WaitTimeout
    \/ Click
    \/ ClickRaises
    \/ AuthEnd
    \/ GasStart
    \/ GasTransfer
    \/ GasSetRaises
    \/ GasQuit
    \/ GasReturn
    \/ Quit
    \/ QuitRaises

(***************************************************************************)
(* The specifications, one per part: every action leaves the variables of  *)
(* the other parts unchanged.                                              *)
(***************************************************************************)
Init == InitComparable /\ InitCleanUp /\ InitAuth

SpecComparable == Init /\ [][NextComparable]_vars

SpecCleanUp == Init /\ [][NextCleanUp]_vars

SpecAuth == Init /\ [][NextAuth]_vars

(***************************************************************************)
(* Properties of Comparable.                                               *)
(***************************************************************************)
\* Both instances declare the same attributes and hold identical values
\* for each of them.
SameDeclaredValues(a, b) ==
    /\ ComparableAttributes(a.cls) = ComparableAttributes(b.cls)
    /\ \A i \in 1..Len(ComparableAttributes(a.cls)) :
          GetAttr(a, ComparableAttributes(a.cls)[i])
              = GetAttr(b, ComparableAttributes(a.cls)[i])

\* Both instances declare the same attributes and differ in the value of at
\* least one of them.
DifferInDeclaredValue(a, b) ==
    /\ ComparableAttributes(a.cls) = ComparableAttributes(b.cls)
    /\ \E i \in 1..Len(ComparableAttributes(a.cls)) :
          GetAttr(a, ComparableAttributes(a.cls)[i])
              # GetAttr(b, ComparableAttributes(a.cls)[i])

\* C1: two Comparable instances with identical values for every declared
\* attribute (the two declaring the same _comparable_attributes) are equal
\* (a == b returns True) and hash identically, whatever the rest of their
\* payload holds.
C1_EqualOnDeclared ==
    /\ \A a, b \in objs :
          SameDeclaredValues(a, b) =>
              /\ Eq(hashSeed, a, b) = Return(TRUE)
              /\ Hash(hashSeed, a) = Hash(hashSeed, b)
    /\ (last.op = "eq" /\ IsComparable(last.b) /\ SameDeclaredValues(last.a, last.b))
          => last.res = Return(TRUE)

\* a == b was evaluated on two instances that agree on the declared attribute
\* x and differ in the undeclared payload field y, and returned True.
C1_Witness ==
    /\ last.op = "eq"
    /\ IsComparable(last.b)
    /\ SameDeclaredValues(last.a, last.b)
    /\ last.a._data.y # last.b._data.y
    /\ last.res = Return(TRUE)

\* C2: a == b is false for every pair of Comparable instances (here: of the
\* same declared attributes) that differ in the value of at least one
\* declared attribute.
C2_DifferImpliesUnequal ==
    (last.op = "eq" /\ IsComparable(last.b) /\ DifferInDeclaredValue(last.a, last.b))
        => last.res = Return(FALSE)

\* C3: a == x and a != x raise ValueError for every operand x that is not a
\* Comparable; neither returns a boolean.
C3_NonComparableRaises ==
    /\ (last.op \in {"eq", "ne"} /\ ~IsComparable(last.b))
          => last.res = Raise("ValueError")
    /\ \A a \in objs, x \in NonComparables :
          /\ Eq(hashSeed, a, x).exc = "ValueError"
          /\ Ne(hashSeed, a, x).exc = "ValueError"

\* a != x was evaluated with x not a Comparable, and raised.
C3_Witness ==
    /\ last.op = "ne"
    /\ ~IsComparable(last.b)
    /\ last.res.exc = "ValueError"

\* C10: over all Comparable instances, of whatever subclasses, == is
\* reflexive, symmetric and transitive, holds exactly when the two hashes are
\* equal, and a != b is the negation of a == b.
C10_EquivalenceByHash ==
    /\ \A a, b, c \in objs :
          /\ Eq(hashSeed, a, a) = Return(TRUE)
          /\ Eq(hashSeed, a, b) = Eq(hashSeed, b, a)
          /\ (Eq(hashSeed, a, b).val /\ Eq(hashSeed, b, c).val) => Eq(hashSeed, a, c).val
          /\ Eq(hashSeed, a, b) = Return(Hash(hashSeed, a) = Hash(hashSeed, b))
          /\ Ne(hashSeed, a, b) = Return(~Eq(hashSeed, a, b).val)
    /\ (last.op = "ne" /\ IsComparable(last.b))
          => last.res = Return(~Eq(hashSeed, last.a, last.b).val)
    /\ (last.op = "eq" /\ IsComparable(last.b))
          => last.res = Return(Hash(hashSeed, last.a) = Hash(hashSeed, last.b))

\* Three distinct live instances, of both subclasses, are pairwise equal, and
\* a != b was evaluated on two of them of different subclasses.
C10_Witness ==
    /\ Cardinality(objs) = 3
    /\ \A a, b \in objs : Eq(hashSeed, a, b) = Return(TRUE)
    /\ last.op = "ne"
    /\ IsComparable(last.b)
    /\ last.a.cls # last.b.cls
    /\ last.res = Return(FALSE)
(***************************************************************************)
(* Properties of Transaction._clean_up.                                    *)
(***************************************************************************)
\* C4: for every input, _clean_up returns a string with no null character,
\* no leading or trailing whitespace and no whitespace but single spaces
\* between words (no two adjacent spaces); "  A\x00B   C " yields "A B C".
C4_CleanUpNormalises ==
    result.done =>
        LET r == result.val IN
        /\ \A i \in 1..Len(r) : r[i] # NUL
        /\ r # <<>> => (~IsSpace(r[1]) /\ ~IsSpace(r[Len(r)]))
        /\ \A i \in 1..Len(r) : IsSpace(r[i]) => r[i] = " "
        /\ \A i \in 1..(Len(r) - 1) : ~(r[i] = " " /\ r[i + 1] = " ")
        /\ string = ExampleInput => r = <<"A", " ", "B", " ", "C">>
(***************************************************************************)
(* Properties of AccountAuthenticator.                                     *)
(***************************************************************************)
\* What a browser cookie is expected to become: every attribute but
\* httpOnly and expiry, with its value.
ExpectedKwargs(cookie) ==
    [k \in (DOMAIN cookie) \ {"httpOnly", "expiry"} |-> cookie[k]]

\* get_authenticated_session has just returned a session.
GasReturned == pc = "idle" /\ outcome.op = "gas" /\ outcome.exc = "none"

\* C5: get_authenticated_session sets one session cookie per browser cookie,
\* with the cookie's name, value and every other attribute except httpOnly
\* and expiry; a cookie lacking httpOnly or expiry is transferred the same
\* way and raises no error.
C5_CookiesTransferred ==
    /\ pc \in {"gas_loop", "gas_return"} =>
          /\ Len(session) = idx - 1
          /\ \A i \in 1..Len(session) : session[i] = ExpectedKwargs(cookies[i])
    /\ GasReturned =>
          /\ Len(outcome.ret) = Len(driverCookies)
          /\ \A i \in 1..Len(driverCookies) :
                /\ outcome.ret[i] = ExpectedKwargs(driverCookies[i])
                /\ outcome.ret[i].name = driverCookies[i].name
                /\ outcome.ret[i].value = driverCookies[i].value
                /\ "httpOnly" \notin DOMAIN outcome.ret[i]
                /\ "expiry" \notin DOMAIN outcome.ret[i]
    /\ outcome.exc # "KeyError"

\* A session was returned for two browser cookies, one with neither httpOnly
\* nor expiry and one with both.
C5_Witness ==
    /\ GasReturned
    /\ Len(outcome.ret) = 2
    /\ \E i, j \in 1..Len(driverCookies) :
          /\ DOMAIN driverCookies[i] = {"name", "value"}
          /\ {"httpOnly", "expiry", "domain"} \subseteq DOMAIN driverCookies[j]
          /\ "domain" \in DOMAIN outcome.ret[j]

\* C6: the browser stays open until quit or get_authenticated_session is
\* called; a get_authenticated_session call that returns a session has
\* invoked the driver's quit exactly once, after the last cookie was copied
\* and before the return, so the browser is closed whenever a session has
\* been returned.
C6_QuitOnceBeforeReturn ==
    /\ [](/\ pc = "gas_loop" => (quits = 0 /\ browserOpen)
          /\ pc = "gas_return" =>
                (quits = 1 /\ ~browserOpen /\ Len(session) = Len(cookies))
          /\ GasReturned => (quits = 1 /\ ~browserOpen))
    /\ [][(browserOpen /\ ~browserOpen') =>
             \/ pc = "idle" /\ outcome'.op = "quit"
             \/ pc = "gas_loop" /\ idx > Len(cookies) /\ pc' = "gas_return"]_vars

\* A session holding two cookies was returned and the browser is closed.
C6_Witness ==
    /\ GasReturned
    /\ Len(outcome.ret) = 2
    /\ quits = 1
    /\ ~browserOpen

\* C7: get_authenticated_session does not depend on authenticate: called on
\* the freshly constructed authenticator (browser open, authenticate never
\* called) it returns a session with the browser's cookies (none) and raises
\* nothing; no call fails for want of authentication.
C7_NoAuthenticationCheck ==
    /\ (pc = "idle" /\ outcome.op = "gas" /\ outcome.exc # "WebDriverException") =>
          /\ outcome.exc \in {"none", "SetError"}
          /\ ~authCalled => (outcome.exc = "none" /\ outcome.ret = <<>>)
    /\ (GasReturned /\ ~authenticated) =>
          \A i \in 1..Len(driverCookies) :
              outcome.ret[i] = ExpectedKwargs(driverCookies[i])

\* get_authenticated_session returned an empty session on an authenticator
\* whose authenticate was never called.
C7_Witness ==
    /\ GasReturned
    /\ ~authCalled
    /\ ~authenticated
    /\ outcome.ret = <<>>

\* C8: _click_on clicks the element only after the wait on that locator has
\* succeeded; when the wait times out the error propagates, nothing is
\* clicked, the wait is not retried and the browser is not closed.
C8_ClickOnlyAfterWait ==
    /\ [](/\ pc = "wait" => waits = 0
          /\ pc = "click" => (waits = 1 /\ waited = xpath))
    /\ [][(clicks' # clicks /\ clicks' # <<>>) =>
             (pc = "click" /\ waited = xpath /\ clicks' = Append(clicks, xpath))]_vars
    /\ [][(pc = "wait" /\ pc' # "click") =>
             /\ pc' = "idle"
             /\ outcome'.op = "authenticate"
             /\ outcome'.exc \in {"TimeoutException", "WebDriverException"}
             /\ clicks' = clicks
             /\ browserOpen' = browserOpen
             /\ waits' = 1]_vars

\* A second _click_on timed out after a first one had clicked: one click
\* stands and the browser is still open.
C8_Witness ==
    /\ pc = "idle"
    /\ outcome.op = "authenticate"
    /\ outcome.exc = "TimeoutException"
    /\ Len(clicks) = 1
    /\ waits = 1
    /\ browserOpen

\* C9: when session.cookies.set raises for a cookie, the error propagates,
\* no session is returned, the remaining cookies are not transferred and
\* quit is not called: the browser is left open.
C9_SetErrorLeavesBrowserOpen ==
    (outcome.op = "gas" /\ outcome.exc = "SetError") =>
        /\ pc = "idle"
        /\ outcome.ret = <<>>
        /\ idx <= Len(cookies)
        /\ Len(session) = idx - 1
        /\ quits = 0
        /\ browserOpen

\* The set of the second of two cookies raised: one cookie was transferred,
\* the browser is open.
C9_Witness ==
    /\ outcome.op = "gas"
    /\ outcome.exc = "SetError"
    /\ Len(cookies) = 2
    /\ Len(session) = 1
    /\ browserOpen
====
